---- MODULE Spec2Model ----
(***************************************************************************)
(* Entity-Component runtime and 2D collision engine of basic-engine:       *)
(* Scene (entity list), SceneManager (deferred scene transition) and       *)
(* CollisionSystem (pairwise detection and resolution).                    *)
(*                                                                         *)
(* Three specifications share the module, one per subsystem; each leaves   *)
(* the variables of the other subsystems unchanged:                        *)
(*   SpecScene      Scene::CreateEntity / RemoveEntity / Update / Destroy  *)
(*   SpecSM         SceneManager::RegisterScene / LoadScene / ...          *)
(*   SpecCollision  CollisionSystem::Register / Unregister / Update        *)
(***************************************************************************)
EXTENDS Integers, Sequences, FiniteSets, TLC

VARIABLES
    \* ---- Scene and its entities (Scene.h, Entity.h) ----
    entities,        \* Scene::entities: vector of shared_ptr<Entity> (Null = empty pointer)
    sceneActive,     \* Scene::active
    numObjs,         \* number of Entity objects constructed so far
    entId,           \* Entity::id of each object
    entActive,       \* Entity::active of each object
    nextId,          \* static Entity::nextId
    destroyCalls,    \* history: how often Entity::Destroy ran on each object
    crashed,         \* the process was terminated by a null dereference
    sceneLast,       \* history: the last Scene operation and its argument
    \* ---- SceneManager (SceneManager.h) ----
    scenes,          \* SceneManager::scenes: name -> scene (Null = no entry)
    currentScene,    \* SceneManager::currentScene
    currentSceneName,\* SceneManager::currentSceneName
    nextScene,       \* SceneManager::nextScene
    sceneTransitionPending, \* SceneManager::sceneTransitionPending
    sActive,         \* Scene::active of every scene object
    sName,           \* Scene::name of every scene object
    requests,        \* history: targets of the successful LoadScene calls not yet processed
    smLast,          \* history: the last SceneManager operation, its result and,
                     \* for an effective transition, the requests it consumed
                     \* and the scene that was current before it
    \* ---- CollisionSystem and the entities it holds (CollisionSystem.h) ----
    ents,            \* the entities that exist (with Transform and Collision components)
    colEntities,     \* CollisionSystem::entities, in registration order
    cActive,         \* Entity::active
    shape,           \* CollisionComponent::shape
    aabbSize,        \* CollisionComponent::aabbData.size
    isTrigger,       \* CollisionComponent::isTrigger
    isStatic,        \* CollisionComponent::isStatic
    hasPhysics,      \* the entity carries a SimplePhysicsComponent
    hasCollider,     \* the entity carries a CollisionComponent
    pos,             \* TransformComponent::position (x, y)
    vel,             \* SimplePhysicsComponent::velocity (x, y)
    collisions,      \* CollisionComponent::collisions (of the component last carried)
    passes,          \* number of CollisionSystem::Update passes so far
    passLog,         \* history: the positive pair checks of the latest pass, in order
    passChecks,      \* history: the pairs given to CheckCollision in the latest pass
    \* ---- one Entity and its components (Entity.h, Component.h) ----
    components,      \* Entity::components: type -> component (NoComp = no entry)
    componentsVector,\* Entity::componentsVector
    comp,            \* the Component objects: type, constructor argument, owner, enabled
    numComps,        \* number of Component objects constructed so far
    entLast,         \* history: the last Entity operation, its result and the
                     \* component calls it made, in order
    \* ---- one TransformComponent (TransformComponent.h) ----
    position,        \* TransformComponent::position
    rotation,        \* TransformComponent::rotation
    scale,           \* TransformComponent::scale
    transformMatrix, \* TransformComponent::transformMatrix (the cached matrix)
    isDirty,         \* TransformComponent::isDirty
    mutated,         \* history: constructed or mutated since the last GetTransformMatrix
    trLast           \* history: the last TransformComponent operation and whether
                     \* it ran UpdateMatrix

sceneVars == <<entities, sceneActive, numObjs, entId, entActive, nextId,
               destroyCalls, crashed, sceneLast>>
smVars == <<scenes, currentScene, currentSceneName, nextScene,
            sceneTransitionPending, sActive, sName, requests, smLast>>
colVars == <<ents, colEntities, cActive, shape, aabbSize, isTrigger, isStatic, hasPhysics, hasCollider,
             pos, vel, collisions, passes, passLog, passChecks>>
entVars == <<components, componentsVector, comp, numComps, entLast>>
trVars == <<position, rotation, scale, transformMatrix, isDirty, mutated, trLast>>
vars == <<sceneVars, smVars, colVars, entVars, trVars>>

(***************************************************************************)
(* Bounds of the model.                                                    *)
(***************************************************************************)
MaxObjs == 3          \* Entity objects constructed in one behaviour
MaxExplicitId == 2    \* largest id passed to Scene::CreateEntity(id, name)
MaxRequests == 2      \* LoadScene calls between two ProcessSceneTransition calls
MaxPasses == 2        \* CollisionSystem::Update passes in one behaviour
MaxComps == 3         \* Component objects constructed in one behaviour
MaxDestroys == 2      \* Entity::Destroy calls on the entity in one behaviour
MaxCoord == 2         \* largest position, rotation or scale value of the transform

Null == 0             \* the empty shared_ptr<Entity>
Objs == 1..MaxObjs

Last(s) == s[Len(s)]

(***************************************************************************)
(* Scene                                                                   *)
(***************************************************************************)

\* Scene::Scene sets active(true); Entity::nextId starts at 1.
InitScene ==
    /\ entities = <<>>
    /\ sceneActive = TRUE
    /\ numObjs = 0
    /\ entId = [o \in Objs |-> 0]
    /\ entActive = [o \in Objs |-> FALSE]
    /\ nextId = 1
    /\ destroyCalls = [o \in Objs |-> 0]
    /\ crashed = FALSE
    /\ sceneLast = [op |-> "none", arg |-> 0, log |-> <<>>]

\* Scene::CreateEntity(name): Entity(name) takes id = nextId++ and is appended.
CreateEntity ==
    /\ ~crashed
    /\ numObjs < MaxObjs
    /\ LET o == numObjs + 1 IN
        /\ numObjs' = o
        /\ entId' = [entId EXCEPT ![o] = nextId]
        /\ entActive' = [entActive EXCEPT ![o] = TRUE]
        /\ nextId' = nextId + 1
        /\ entities' = Append(entities, o)
        /\ sceneLast' = [op |-> "CreateEntity", arg |-> o, log |-> <<>>]
    /\ UNCHANGED <<sceneActive, destroyCalls, crashed>>

\* Scene::CreateEntity(id, name): Entity(id, name) takes the given id and
\* raises nextId above it when id >= nextId.
CreateEntityWithId(id) ==
    /\ ~crashed
    /\ numObjs < MaxObjs
    /\ LET o == numObjs + 1 IN
        /\ numObjs' = o
        /\ entId' = [entId EXCEPT ![o] = id]
        /\ entActive' = [entActive EXCEPT ![o] = TRUE]
        /\ nextId' = IF id >= nextId THEN id + 1 ELSE nextId
        /\ entities' = Append(entities, o)
        /\ sceneLast' = [op |-> "CreateEntity", arg |-> o, log |-> <<>>]
    /\ UNCHANGED <<sceneActive, destroyCalls, crashed>>

\* The predicate of RemoveEntity's remove_if: entity->GetID() == entityId.
HasId(o, id) == o # Null /\ entId[o] = id

\* std::remove_if over the vector v from position `first` on, writing kept
\* elements at `result` by move assignment: the moved-from shared_ptr is left
\* empty. Returns the vector and the returned iterator (a position).
RECURSIVE RemoveIfLoop(_, _, _, _)
RemoveIfLoop(v, first, result, id) ==
    IF first > Len(v) THEN [vec |-> v, it |-> result]
    ELSE IF HasId(v[first], id)
         THEN RemoveIfLoop(v, first + 1, result, id)
         ELSE RemoveIfLoop([[v EXCEPT ![result] = v[first]] EXCEPT ![first] = Null],
                           first + 1, result + 1, id)

\* A mutant of FindIf: the last position, instead of end, when none holds
\* the id.
FindIfOrLast(v, id) ==
    IF \E i \in 1..Len(v) : HasId(v[i], id)
    THEN CHOOSE i \in 1..Len(v) :
            HasId(v[i], id) /\ \A j \in 1..(i - 1) : ~HasId(v[j], id)
    ELSE IF Len(v) = 0 THEN 1 ELSE Len(v)

\* std::find_if: the first position holding the id, Len(v)+1 (end) when none.
FindIf(v, id) ==
    IF \E i \in 1..Len(v) : HasId(v[i], id)
    THEN CHOOSE i \in 1..Len(v) :
            HasId(v[i], id) /\ \A j \in 1..(i - 1) : ~HasId(v[j], id)
    ELSE Len(v) + 1

\* std::remove_if(entities.begin(), entities.end(), pred).
RemoveIf(v, id) ==
    LET f == FindIf(v, id) IN
    IF f > Len(v) THEN [vec |-> v, it |-> f]
    ELSE RemoveIfLoop(v, f + 1, f, id)

\* Entity::Destroy: components are destroyed and cleared, active = false.
\* (The variables it assigns, for the object o.)
EntityDestroyActive(o) == [entActive EXCEPT ![o] = FALSE]
EntityDestroyCalls(o) == [destroyCalls EXCEPT ![o] = @ + 1]

\* Scene::RemoveEntity(int entityId):
\*     it = remove_if(...); if (it != end) { (*it)->Destroy(); erase(it, end); }
\* When *it is an empty pointer the call (*it)->Destroy() is undefined
\* behaviour: the process is terminated by the null dereference, or the call
\* has no effect on any entity and the erase goes on.
RemoveEntity(id) ==
    /\ ~crashed
    /\ LET r == RemoveIf(entities, id) IN
        IF r.it > Len(entities)
        THEN /\ UNCHANGED <<entities, entActive, destroyCalls, crashed>>
        ELSE IF r.vec[r.it] # Null
             THEN /\ entActive' = EntityDestroyActive(r.vec[r.it])
                  /\ destroyCalls' = EntityDestroyCalls(r.vec[r.it])
                  /\ entities' = SubSeq(r.vec, 1, r.it - 1)
                  /\ UNCHANGED crashed
             ELSE \/ /\ crashed' = TRUE
                     /\ entities' = r.vec
                     /\ UNCHANGED <<entActive, destroyCalls>>
                  \/ /\ entities' = SubSeq(r.vec, 1, r.it - 1)
                     /\ UNCHANGED <<entActive, destroyCalls, crashed>>
    /\ sceneLast' = [op |-> "RemoveEntity", arg |-> id, log |-> <<>>]
    /\ UNCHANGED <<sceneActive, numObjs, entId, nextId>>

\* Entity::SetActive(isActive) on an entity of the scene.
EntitySetActive(o, b) ==
    /\ ~crashed
    /\ \E i \in 1..Len(entities) : entities[i] = o
    /\ entActive' = [entActive EXCEPT ![o] = b]
    /\ sceneLast' = [op |-> "SetActive", arg |-> 0, log |-> <<>>]
    /\ UNCHANGED <<entities, sceneActive, numObjs, entId, nextId, destroyCalls, crashed>>

\* Scene::SetActive(isActive).
SceneSetActive(b) ==
    /\ ~crashed
    /\ sceneActive' = b
    /\ sceneLast' = [op |-> "SetActive", arg |-> 0, log |-> <<>>]
    /\ UNCHANGED <<entities, numObjs, entId, entActive, nextId, destroyCalls, crashed>>

\* A mutant of SceneUpdate: the entities are updated but none is erased.
SceneUpdateNoSweep ==
    /\ ~crashed
    /\ sceneLast' = [op |-> "Update", arg |-> 0, log |-> <<>>]
    /\ UNCHANGED <<entities, sceneActive, numObjs, entId, entActive, nextId,
                   destroyCalls, crashed>>

\* Membership in the entity list.
InScene(o) == \E i \in 1..Len(entities) : entities[i] = o

\* The position of entity o in the entity list.
PosOf(o) == CHOOSE i \in 1..Len(entities) : entities[i] = o

\* Scene::Update, first loop with the script (k, d): the update of the k-th
\* entity deactivates entity d (k = 0: no update deactivates anything). The
\* script takes effect when the k-th entity is updated at all.
Fired(k) == k \in 1..Len(entities) /\ entities[k] # Null /\ entActive[entities[k]]

\* entity->IsActive() when the loop reaches entity o.
ActiveAtTurn(o, k, d) ==
    o # Null /\ entActive[o] /\ ~(Fired(k) /\ o = d /\ PosOf(o) > k)

\* A mutant of UpdatedEntities: inactive entities are updated too.
UpdatedEntitiesAll(k, d) ==
    [i \in 1..Len(entities) |-> [ent |-> entities[i], among |-> entities]]

\* Scene::Update, first loop: the calls entity->Update(deltaTime) in order,
\* each with the entity list as it is during the call.
UpdatedEntities(k, d) ==
    LET us == SelectSeq(entities, LAMBDA o : ActiveAtTurn(o, k, d))
    IN [i \in 1..Len(us) |-> [ent |-> us[i], among |-> entities]]

\* Entity::active of every entity after the first loop.
ActiveAfterPass(k, d) ==
    IF Fired(k) THEN [entActive EXCEPT ![d] = FALSE] ELSE entActive

\* Scene::Update: no-op when inactive; else update the entities that are
\* active at their turn (an update may deactivate an entity), then erase
\* every entity that is null or inactive.
SceneUpdate ==
    /\ ~crashed
    /\ IF sceneActive
       THEN \E k \in 0..Len(entities), d \in Objs :
               /\ IF k = 0 THEN d = 1 ELSE Fired(k) /\ InScene(d) /\ entActive[d]
               /\ entActive' = ActiveAfterPass(k, d)
               /\ entities' =
                     SelectSeq(entities, LAMBDA o : o # Null /\ ActiveAfterPass(k, d)[o])
               /\ sceneLast' = [op |-> "Update", arg |-> 0, log |-> UpdatedEntities(k, d)]
       ELSE /\ UNCHANGED <<entities, entActive>>
            /\ sceneLast' = [op |-> "Update", arg |-> 0, log |-> <<>>]
    /\ UNCHANGED <<sceneActive, numObjs, entId, nextId, destroyCalls, crashed>>

\* Scene::RemoveEntity(std::shared_ptr<Entity>): nothing for a null pointer,
\* else RemoveEntity(entity->GetID()).
RemoveEntityPtr(o) ==
    IF o = Null
    THEN /\ ~crashed
         /\ sceneLast' = [op |-> "RemoveEntityPtr", arg |-> Null, log |-> <<>>]
         /\ UNCHANGED <<entities, sceneActive, numObjs, entId, entActive, nextId,
                        destroyCalls, crashed>>
    ELSE o <= numObjs /\ RemoveEntity(entId[o])

\* Scene::Destroy: Destroy on every non-null entity, clear the list,
\* active = false.
SceneDestroy ==
    /\ ~crashed
    /\ entActive' = [o \in Objs |-> IF InScene(o) THEN FALSE ELSE entActive[o]]
    /\ destroyCalls' = [o \in Objs |-> IF InScene(o) THEN destroyCalls[o] + 1
                                       ELSE destroyCalls[o]]
    /\ entities' = <<>>
    /\ sceneActive' = FALSE
    /\ sceneLast' = [op |-> "Destroy", arg |-> 0, log |-> <<>>]
    /\ UNCHANGED <<numObjs, entId, nextId, crashed>>

NextScene ==
    \/ CreateEntity
    \/ \E id \in 1..MaxExplicitId : CreateEntityWithId(id)
    \/ \E id \in 1..(MaxObjs + 1) : RemoveEntity(id)
    \/ \E o \in Objs, b \in BOOLEAN : EntitySetActive(o, b)
    \/ \E b \in BOOLEAN : SceneSetActive(b)
    \/ SceneUpdate
    \/ \E o \in {Null, 1} : RemoveEntityPtr(o)
    \/ SceneDestroy

(***************************************************************************)
(* SceneManager                                                            *)
(***************************************************************************)
SceneNames == {"X", "Y"}             \* names passed to RegisterScene / LoadScene
SceneObjs == {"s1", "s2"}            \* Scene objects shared with the manager
NoScene == "null"                    \* the empty shared_ptr<Scene>

\* SceneManager() = default: empty map, null pointers, no pending transition.
\* Every Scene object was constructed active, with the default name.
InitSM ==
    /\ scenes = [n \in SceneNames |-> NoScene]
    /\ currentScene = NoScene
    /\ currentSceneName = ""
    /\ nextScene = NoScene
    /\ sceneTransitionPending = FALSE
    /\ sActive = [s \in SceneObjs |-> TRUE]
    /\ sName = [s \in SceneObjs |-> "Untitled Scene"]
    /\ requests = <<>>
    /\ smLast = [op |-> "none", name |-> "", ok |-> TRUE, reqs |-> <<>>, prev |-> NoScene]

\* SceneManager::RegisterScene(name, scene): a null scene is rejected;
\* otherwise scenes[name] = scene and scene->SetName(name).
RegisterScene(n, s) ==
    /\ IF s = NoScene
       THEN UNCHANGED <<scenes, sName>>
       ELSE /\ scenes' = [scenes EXCEPT ![n] = s]
            /\ sName' = [sName EXCEPT ![s] = n]
    /\ smLast' = [op |-> "RegisterScene", name |-> "", ok |-> s # NoScene, reqs |-> <<>>, prev |-> NoScene]
    /\ UNCHANGED <<currentScene, currentSceneName, nextScene,
                   sceneTransitionPending, sActive, requests>>

\* A mutant of LoadScene: the switch happens synchronously.
LoadSceneSync(n) ==
    /\ scenes[n] # NoScene
    /\ currentScene' = scenes[n]
    /\ sActive' = [sActive EXCEPT ![scenes[n]] = TRUE]
    /\ smLast' = [op |-> "LoadScene", name |-> n, ok |-> TRUE, reqs |-> <<>>, prev |-> NoScene]
    /\ UNCHANGED <<scenes, currentSceneName, nextScene, sceneTransitionPending,
                   sName, requests>>

\* A mutant of LoadScene: a request made while one is pending is dropped.
LoadSceneKeepFirst(n) ==
    /\ Len(requests) < MaxRequests
    /\ scenes[n] # NoScene
    /\ nextScene' = IF sceneTransitionPending THEN nextScene ELSE scenes[n]
    /\ sceneTransitionPending' = TRUE
    /\ requests' = Append(requests, scenes[n])
    /\ smLast' = [op |-> "LoadScene", name |-> n, ok |-> TRUE, reqs |-> <<>>, prev |-> NoScene]
    /\ UNCHANGED <<scenes, currentScene, currentSceneName, sActive, sName>>

\* A mutant of LoadScene: an unknown name cancels the pending transition.
LoadSceneUnknownCancels(n) ==
    /\ Len(requests) < MaxRequests
    /\ IF scenes[n] = NoScene
       THEN /\ smLast' = [op |-> "LoadScene", name |-> n, ok |-> FALSE,
                          reqs |-> <<>>, prev |-> NoScene]
            /\ sceneTransitionPending' = FALSE
            /\ nextScene' = NoScene
            /\ requests' = <<>>
       ELSE /\ nextScene' = scenes[n]
            /\ sceneTransitionPending' = TRUE
            /\ requests' = Append(requests, scenes[n])
            /\ smLast' = [op |-> "LoadScene", name |-> n, ok |-> TRUE,
                          reqs |-> <<>>, prev |-> NoScene]
    /\ UNCHANGED <<scenes, currentScene, currentSceneName, sActive, sName>>

\* SceneManager::LoadScene(name): false for an unknown name; otherwise
\* nextScene = it->second, sceneTransitionPending = true, return true.
LoadScene(n) ==
    /\ Len(requests) < MaxRequests
    /\ IF scenes[n] = NoScene
       THEN /\ smLast' = [op |-> "LoadScene", name |-> n, ok |-> FALSE, reqs |-> <<>>, prev |-> NoScene]
            /\ UNCHANGED <<nextScene, sceneTransitionPending, requests>>
       ELSE /\ nextScene' = scenes[n]
            /\ sceneTransitionPending' = TRUE
            /\ requests' = Append(requests, scenes[n])
            /\ smLast' = [op |-> "LoadScene", name |-> n, ok |-> TRUE, reqs |-> <<>>, prev |-> NoScene]
    /\ UNCHANGED <<scenes, currentScene, currentSceneName, sActive, sName>>

\* The names the loop "for (pair : scenes) if (pair.second == currentScene)"
\* can stop at: the unordered_map's iteration order is unspecified.
NamesOf(s) == {n \in SceneNames : scenes[n] = s}

\* A mutant of ProcessSceneTransition: the outgoing scene is left active.
ProcessSceneTransitionKeepsOutgoing ==
    /\ IF ~sceneTransitionPending
       THEN UNCHANGED <<currentScene, currentSceneName, nextScene,
                        sceneTransitionPending, sActive, requests>>
       ELSE /\ currentScene' = nextScene
            /\ currentSceneName' \in {n \in SceneNames : scenes[n] = nextScene} \cup {""}
            /\ sActive' = [sActive EXCEPT ![nextScene] = TRUE]
            /\ nextScene' = NoScene
            /\ sceneTransitionPending' = FALSE
            /\ requests' = <<>>
    /\ smLast' = [op |-> "ProcessSceneTransition", name |-> "", ok |-> TRUE, reqs |-> requests,
                  prev |-> IF sceneTransitionPending THEN currentScene ELSE NoScene]
    /\ UNCHANGED <<scenes, sName>>

\* SceneManager::ProcessSceneTransition: nothing when no transition is
\* pending; else deactivate currentScene (if any), currentScene = nextScene,
\* look its name up, activate it (if any), clear nextScene and the flag.
ProcessSceneTransition ==
    /\ IF ~sceneTransitionPending
       THEN UNCHANGED <<currentScene, currentSceneName, nextScene,
                        sceneTransitionPending, sActive, requests>>
       ELSE /\ currentScene' = nextScene
            /\ IF NamesOf(nextScene) = {}
               THEN currentSceneName' = ""
               ELSE currentSceneName' \in NamesOf(nextScene)
            /\ sActive' =
                 LET off == IF currentScene # NoScene
                            THEN [sActive EXCEPT ![currentScene] = FALSE]
                            ELSE sActive
                 IN IF nextScene # NoScene
                    THEN [off EXCEPT ![nextScene] = TRUE]
                    ELSE off
            /\ nextScene' = NoScene
            /\ sceneTransitionPending' = FALSE
            /\ requests' = <<>>
    /\ smLast' = [op |-> "ProcessSceneTransition", name |-> "", ok |-> TRUE, reqs |-> requests,
                  prev |-> IF sceneTransitionPending THEN currentScene ELSE NoScene]
    /\ UNCHANGED <<scenes, sName>>

\* SceneManager::UnloadCurrentScene: deactivate and drop the current scene.
UnloadCurrentScene ==
    /\ IF currentScene # NoScene
       THEN /\ sActive' = [sActive EXCEPT ![currentScene] = FALSE]
            /\ currentScene' = NoScene
            /\ currentSceneName' = ""
       ELSE UNCHANGED <<sActive, currentScene, currentSceneName>>
    /\ smLast' = [op |-> "UnloadCurrentScene", name |-> "", ok |-> TRUE, reqs |-> <<>>, prev |-> NoScene]
    /\ UNCHANGED <<scenes, nextScene, sceneTransitionPending, sName, requests>>

NextSM ==
    \/ \E n \in SceneNames, s \in SceneObjs \cup {NoScene} : RegisterScene(n, s)
    \/ \E n \in SceneNames : LoadScene(n)
    \/ ProcessSceneTransition
    \/ UnloadCurrentScene

(***************************************************************************)
(* Arithmetic. A float is modelled as a fixed-point integer: the value v   *)
(* stands for v / One. Products and quotients round toward zero, which is  *)
(* symmetric under negation like the float operations they stand for.      *)
(***************************************************************************)
One == 1000                          \* 1.0f
Half == One \div 2                   \* 0.5f
Eps == One \div 1000                 \* 0.001f, the threshold of Normalize and the fallbacks

Abs(a) == IF a < 0 THEN -a ELSE a
Min(a, b) == IF a < b THEN a ELSE b
Max(a, b) == IF a > b THEN a ELSE b

SDiv(a, b) ==
    LET q == Abs(a) \div Abs(b) IN IF (a < 0) # (b < 0) THEN -q ELSE q
Mul(a, b) == SDiv(a * b, One)        \* a * b
Div(a, b) == SDiv(a * One, b)        \* a / b

RECURSIVE SqrtSearch(_, _, _)
SqrtSearch(n, lo, hi) ==
    IF lo >= hi THEN lo
    ELSE LET mid == (lo + hi + 1) \div 2 IN
         IF mid * mid <= n THEN SqrtSearch(n, mid, hi) ELSE SqrtSearch(n, lo, mid - 1)
ISqrt(n) == SqrtSearch(n, 0, Min(n, 46340))

\* glm::vec2 and its operators.
Vec(x, y) == [x |-> x, y |-> y]
Zero2 == Vec(0, 0)
VAdd(a, b) == Vec(a.x + b.x, a.y + b.y)
VSub(a, b) == Vec(a.x - b.x, a.y - b.y)
VNeg(a) == Vec(-a.x, -a.y)
VScale(a, k) == Vec(Mul(a.x, k), Mul(a.y, k))
VDiv(a, k) == Vec(Div(a.x, k), Div(a.y, k))
Length(a) == ISqrt(a.x * a.x + a.y * a.y)      \* glm::length

\* CollisionSystem::Distance, Normalize, Dot.
Distance(a, b) == Length(VSub(b, a))
Normalize(v) == IF Length(v) > Eps THEN VDiv(v, Length(v)) ELSE Zero2
Dot(a, b) == SDiv(a.x * b.x + a.y * b.y, One)

\* CollisionSystem::ClosestPointOnLine.
ClosestPointOnLine(point, lineStart, lineEnd) ==
    LET line == VSub(lineEnd, lineStart)
        lineLength == Length(line)
    IN IF lineLength < Eps THEN lineStart
       ELSE LET lineDirection == VDiv(line, lineLength)
                toPoint == VSub(point, lineStart)
                projectionLength == Max(0, Min(lineLength, Dot(toPoint, lineDirection)))
            IN VAdd(lineStart, VScale(lineDirection, projectionLength))

(***************************************************************************)
(* CollisionComponent                                                      *)
(***************************************************************************)
Ents == {1, 2, 3}                    \* entity objects
Shapes == {"CIRCLE", "AABB", "LINE_SEGMENT", "POINT"}   \* enum CollisionShape

\* Shape data: the defaults of CircleCollider, AABBCollider and LineCollider.
CircleRadius == One                             \* CircleCollider::radius
CircleOffset == Zero2                           \* CircleCollider::offset
UnitBox == Vec(One, One)                        \* AABBCollider::size, by default
TallBox == Vec(One, 3 * One)                    \* a size given to SetAABB
AABBOffset == Zero2                             \* AABBCollider::offset
LineStart == Zero2                              \* LineCollider::start
LineEnd == Vec(One, 0)                          \* LineCollider::end
LineThickness == One \div 10                    \* LineCollider::thickness

\* SimplePhysicsComponent data of every entity that carries one.
BounceDamping(e) == Half                        \* SetBounceDamping(0.5f)
Mass(e) == e * One                              \* SetMass

\* CollisionInfo(collision, point, norm, pen, other) and CollisionInfo().
NoEntity == 0
CollisionInfo(hit, point, norm, pen) ==
    [hasCollision |-> hit, contactPoint |-> point, normal |-> norm,
     penetration |-> pen, otherEntity |-> NoEntity]
NoCollision == CollisionInfo(FALSE, Zero2, Zero2, 0)

\* CollisionComponent::GetWorldPosition: the entity's transform position.
GetWorldPosition(e, p) == p[e]

\* CollisionComponent::GetWorldCenter.
GetWorldCenter(e, p) ==
    CASE shape[e] = "CIRCLE" -> VAdd(GetWorldPosition(e, p), CircleOffset)
      [] shape[e] = "AABB" -> VAdd(GetWorldPosition(e, p), AABBOffset)
      [] shape[e] = "LINE_SEGMENT" ->
            VAdd(GetWorldPosition(e, p), VScale(VAdd(LineStart, LineEnd), Half))
      [] OTHER -> GetWorldPosition(e, p)

(***************************************************************************)
(* CollisionSystem: detection                                              *)
(***************************************************************************)

\* CollisionSystem::CheckCircleCircle.
CheckCircleCircle(a, b, p) ==
    LET centerA == GetWorldCenter(a, p)
        centerB == GetWorldCenter(b, p)
        direction == VSub(centerB, centerA)
        distance == Distance(centerA, centerB)
        combinedRadius == CircleRadius + CircleRadius
    IN IF distance < combinedRadius
       THEN LET normal == IF distance > Eps THEN Normalize(direction) ELSE Vec(One, 0)
            IN CollisionInfo(TRUE, VAdd(centerA, VScale(normal, CircleRadius)),
                             normal, combinedRadius - distance)
       ELSE NoCollision

\* CollisionSystem::CheckCircleLine: the line's end points are world coordinates.
CheckCircleLine(circle, line, p) ==
    LET circleCenter == GetWorldCenter(circle, p)
        closestPoint == ClosestPointOnLine(circleCenter, LineStart, LineEnd)
        direction == VSub(circleCenter, closestPoint)
        distance == Distance(circleCenter, closestPoint)
        totalRadius == CircleRadius + LineThickness
    IN IF distance < totalRadius
       THEN LET normal == IF distance > Eps THEN Normalize(direction) ELSE Vec(0, One)
            IN CollisionInfo(TRUE, closestPoint, normal, totalRadius - distance)
       ELSE NoCollision

\* CollisionSystem::CheckCircleAABB.
CheckCircleAABB(circle, aabb, p) ==
    LET circleCenter == GetWorldCenter(circle, p)
        aabbCenter == GetWorldCenter(aabb, p)
        aabbHalfSize == VScale(aabbSize[aabb], Half)
        closest == Vec(Max(aabbCenter.x - aabbHalfSize.x,
                           Min(circleCenter.x, aabbCenter.x + aabbHalfSize.x)),
                       Max(aabbCenter.y - aabbHalfSize.y,
                           Min(circleCenter.y, aabbCenter.y + aabbHalfSize.y)))
        direction == VSub(circleCenter, closest)
        distance == Distance(circleCenter, closest)
    IN IF distance < CircleRadius
       THEN LET normal == IF distance > Eps THEN Normalize(direction) ELSE Vec(0, One)
            IN CollisionInfo(TRUE, closest, normal, CircleRadius - distance)
       ELSE NoCollision

\* A mutant of CheckAABBAABB: the axis of the larger penetration separates.
CheckAABBAABBMaxAxis(a, b, p) ==
    LET centerA == GetWorldCenter(a, p)
        centerB == GetWorldCenter(b, p)
        halfSizeA == VScale(aabbSize[a], Half)
        halfSizeB == VScale(aabbSize[b], Half)
        distance == VSub(centerB, centerA)
        combinedHalfSize == VAdd(halfSizeA, halfSizeB)
    IN IF Abs(distance.x) < combinedHalfSize.x /\ Abs(distance.y) < combinedHalfSize.y
       THEN LET penetrationX == combinedHalfSize.x - Abs(distance.x)
                penetrationY == combinedHalfSize.y - Abs(distance.y)
            IN IF penetrationX > penetrationY
               THEN CollisionInfo(TRUE,
                        VAdd(centerA, Vec(IF distance.x > 0 THEN halfSizeA.x
                                          ELSE -halfSizeA.x, 0)),
                        Vec(IF distance.x > 0 THEN One ELSE -One, 0),
                        penetrationX)
               ELSE CollisionInfo(TRUE,
                        VAdd(centerA, Vec(0, IF distance.y > 0 THEN halfSizeA.y
                                             ELSE -halfSizeA.y)),
                        Vec(0, IF distance.y > 0 THEN One ELSE -One),
                        penetrationY)
       ELSE NoCollision

\* CollisionSystem::CheckAABBAABB.
CheckAABBAABB(a, b, p) ==
    LET centerA == GetWorldCenter(a, p)
        centerB == GetWorldCenter(b, p)
        halfSizeA == VScale(aabbSize[a], Half)
        halfSizeB == VScale(aabbSize[b], Half)
        distance == VSub(centerB, centerA)
        combinedHalfSize == VAdd(halfSizeA, halfSizeB)
    IN IF Abs(distance.x) < combinedHalfSize.x /\ Abs(distance.y) < combinedHalfSize.y
       THEN LET penetrationX == combinedHalfSize.x - Abs(distance.x)
                penetrationY == combinedHalfSize.y - Abs(distance.y)
            IN IF penetrationX < penetrationY
               THEN CollisionInfo(TRUE,
                        VAdd(centerA, Vec(IF distance.x > 0 THEN halfSizeA.x
                                          ELSE -halfSizeA.x, 0)),
                        Vec(IF distance.x > 0 THEN One ELSE -One, 0),
                        penetrationX)
               ELSE CollisionInfo(TRUE,
                        VAdd(centerA, Vec(0, IF distance.y > 0 THEN halfSizeA.y
                                             ELSE -halfSizeA.y)),
                        Vec(0, IF distance.y > 0 THEN One ELSE -One),
                        penetrationY)
       ELSE NoCollision

\* A mutant of FlipNormal: the normal is left as it is.
FlipNormalNot(c) == c

\* The "Flip normal" of CheckCollision's reversed type orders.
FlipNormal(c) == [c EXCEPT !.normal = VNeg(c.normal)]

\* A mutant of CheckCollision: a shape pair without a check collides.
CheckCollisionDefaultHit(a, b, p) ==
    CASE shape[a] = "CIRCLE" /\ shape[b] = "CIRCLE" -> CheckCircleCircle(a, b, p)
      [] shape[a] = "CIRCLE" /\ shape[b] = "LINE_SEGMENT" -> CheckCircleLine(a, b, p)
      [] shape[a] = "LINE_SEGMENT" /\ shape[b] = "CIRCLE" ->
            FlipNormal(CheckCircleLine(b, a, p))
      [] shape[a] = "CIRCLE" /\ shape[b] = "AABB" -> CheckCircleAABB(a, b, p)
      [] shape[a] = "AABB" /\ shape[b] = "CIRCLE" ->
            FlipNormal(CheckCircleAABB(b, a, p))
      [] shape[a] = "AABB" /\ shape[b] = "AABB" -> CheckAABBAABB(a, b, p)
      [] OTHER -> CollisionInfo(TRUE, GetWorldCenter(a, p), Vec(One, 0), One)

\* CollisionSystem::CheckCollision: dispatch on the pair's shapes.
CheckCollision(a, b, p) ==
    CASE shape[a] = "CIRCLE" /\ shape[b] = "CIRCLE" -> CheckCircleCircle(a, b, p)
      [] shape[a] = "CIRCLE" /\ shape[b] = "LINE_SEGMENT" -> CheckCircleLine(a, b, p)
      [] shape[a] = "LINE_SEGMENT" /\ shape[b] = "CIRCLE" ->
            FlipNormal(CheckCircleLine(b, a, p))
      [] shape[a] = "CIRCLE" /\ shape[b] = "AABB" -> CheckCircleAABB(a, b, p)
      [] shape[a] = "AABB" /\ shape[b] = "CIRCLE" ->
            FlipNormal(CheckCircleAABB(b, a, p))
      [] shape[a] = "AABB" /\ shape[b] = "AABB" -> CheckAABBAABB(a, b, p)
      [] OTHER -> NoCollision

(***************************************************************************)
(* CollisionSystem: resolution                                             *)
(***************************************************************************)
CorrectionPercent == (8 * One) \div 10          \* float correctionPercent = 0.8f
Slop == One \div 100                            \* float slop = 0.01f

\* A mutant of CorrectPositions: the correction is always split between both
\* bodies, whether static or not.
CorrectPositionsAlwaysSplit(p, c, a, b) ==
    IF c.penetration > Slop
    THEN LET correction == VScale(c.normal, Mul(c.penetration - Slop, CorrectionPercent))
         IN [p EXCEPT ![a] = VSub(@, VScale(correction, Half)),
                      ![b] = VAdd(@, VScale(correction, Half))]
    ELSE p

\* ResolveCollision, position correction: the positions after it.
CorrectPositions(p, c, a, b) ==
    IF c.penetration > Slop
    THEN LET correction == VScale(c.normal, Mul(c.penetration - Slop, CorrectionPercent))
         IN IF ~isStatic[a] /\ ~isStatic[b]
            THEN [p EXCEPT ![a] = VSub(@, VScale(correction, Half)),
                           ![b] = VAdd(@, VScale(correction, Half))]
            ELSE IF ~isStatic[a]
            THEN [p EXCEPT ![a] = VSub(@, correction)]
            ELSE IF ~isStatic[b]
            THEN [p EXCEPT ![b] = VAdd(@, correction)]
            ELSE p
    ELSE p

\* ResolveCollision, velocity resolution: the velocities after it.
ResolveVelocities(v, c, a, b) ==
    IF ~(hasPhysics[a] /\ hasPhysics[b]) THEN v
    ELSE LET velA == v[a]
             velB == v[b]
             relativeVel == VSub(velB, velA)
             velocityAlongNormal == Dot(relativeVel, c.normal)
             restitution == Min(BounceDamping(a), BounceDamping(b))
             impulseScalar == -Mul(One + restitution, velocityAlongNormal)
         IN IF velocityAlongNormal > 0 THEN v
            ELSE LET impulse == VScale(c.normal, Div(impulseScalar, Mass(a) + Mass(b)))
                     reflect == VScale(VScale(VScale(c.normal, 2 * One),
                                              velocityAlongNormal), restitution)
                     newA == IF ~isStatic[a] /\ ~isStatic[b]
                             THEN VSub(velA, VScale(impulse, Mass(b)))
                             ELSE IF ~isStatic[a] THEN VSub(velA, reflect) ELSE velA
                     newB == IF ~isStatic[a] /\ ~isStatic[b]
                             THEN VAdd(velB, VScale(impulse, Mass(a)))
                             ELSE IF ~isStatic[a] THEN velB
                             ELSE IF ~isStatic[b] THEN VAdd(velB, reflect) ELSE velB
                 IN [v EXCEPT ![a] = IF ~isStatic[a] THEN newA ELSE @,
                              ![b] = IF ~isStatic[b] THEN newB ELSE @]

\* CollisionSystem::ResolveCollision on the pass state st (every entity of
\* the model carries a TransformComponent).
ResolveCollision(st, c, a, b) ==
    IF ~c.hasCollision THEN st
    ELSE [st EXCEPT !.pos = CorrectPositions(st.pos, c, a, b),
                    !.vel = ResolveVelocities(st.vel, c, a, b)]

(***************************************************************************)
(* CollisionSystem: registry and Update                                    *)
(***************************************************************************)
Range(q) == {q[i] : i \in 1..Len(q)}

\* The vector from A's shape toward B's shape when the pair is checked: the
\* closest point of a line stands for the line, the centre for the others.
Toward(a, b, p) ==
    CASE shape[a] = "CIRCLE" /\ shape[b] = "LINE_SEGMENT" ->
            VSub(ClosestPointOnLine(GetWorldCenter(a, p), LineStart, LineEnd),
                 GetWorldCenter(a, p))
      [] shape[a] = "LINE_SEGMENT" /\ shape[b] = "CIRCLE" ->
            VSub(GetWorldCenter(b, p),
                 ClosestPointOnLine(GetWorldCenter(b, p), LineStart, LineEnd))
      [] OTHER -> VSub(GetWorldCenter(b, p), GetWorldCenter(a, p))

\* CollisionSystem::RegisterEntity: ignored for an entity without a
\* CollisionComponent and for an entity already registered.
RegisterEntity(e) ==
    /\ e \in ents
    /\ colEntities' = IF ~hasCollider[e] \/ e \in Range(colEntities) THEN colEntities
                      ELSE Append(colEntities, e)
    /\ UNCHANGED <<ents, cActive, shape, aabbSize, isTrigger, isStatic, hasPhysics, hasCollider,
                   pos, vel, collisions, passes, passLog, passChecks>>

\* CollisionSystem::UnregisterEntity.
UnregisterEntity(e) ==
    /\ e \in ents
    /\ colEntities' = SelectSeq(colEntities, LAMBDA x : x # e)
    /\ UNCHANGED <<ents, cActive, shape, aabbSize, isTrigger, isStatic, hasPhysics, hasCollider,
                   pos, vel, collisions, passes, passLog, passChecks>>

\* CollisionSystem::Clear.
ClearSystem ==
    /\ colEntities' = <<>>
    /\ UNCHANGED <<ents, cActive, shape, aabbSize, isTrigger, isStatic, hasPhysics, hasCollider,
                   pos, vel, collisions, passes, passLog, passChecks>>

\* Entity::RemoveComponent<CollisionComponent>() on an entity that may be
\* registered: the entity no longer carries the component (Destroy is not
\* overridden by CollisionComponent: the component keeps its list).
RemoveCollider(e) ==
    /\ e \in ents
    /\ hasCollider[e]
    /\ hasCollider' = [hasCollider EXCEPT ![e] = FALSE]
    /\ UNCHANGED <<ents, colEntities, cActive, shape, aabbSize, isTrigger, isStatic,
                   hasPhysics, pos, vel, collisions, passes, passLog, passChecks>>

\* Entity::SetActive on an entity that may be registered.
ColSetActive(e, b) ==
    /\ e \in ents
    /\ cActive' = [cActive EXCEPT ![e] = b]
    /\ UNCHANGED <<ents, colEntities, shape, aabbSize, isTrigger, isStatic, hasPhysics, hasCollider,
                   pos, vel, collisions, passes, passLog, passChecks>>

\* A mutant of ClearedCollisions: no list is cleared.
ClearedCollisionsNever(cs) == cs

\* Update, first loop: ClearCollisions on every registered active entity.
ClearedCollisions(cs) ==
    [e \in Ents |-> IF e \in Range(colEntities) /\ cActive[e] /\ hasCollider[e]
                    THEN <<>> ELSE cs[e]]

\* A mutant of ReverseCollision: the normal is copied, not negated.
ReverseCollisionSameNormal(c, a) == [c EXCEPT !.otherEntity = a]

\* A mutant of ReverseCollision: the normal is turned by a quarter, not negated.
ReverseCollisionQuarterTurn(c, a) ==
    [c EXCEPT !.normal = Vec(-c.normal.y, c.normal.x), !.otherEntity = a]

\* Update: "reverseCollision = collision; normal = -normal; otherEntity = A".
ReverseCollision(c, a) == [c EXCEPT !.normal = VNeg(c.normal), !.otherEntity = a]

\* A mutant of NeitherIsTrigger: every recorded collision is resolved.
TriggersIgnored(a, b) == TRUE

\* Update: "if (!colliderA->IsTrigger() && !colliderB->IsTrigger())".
NeitherIsTrigger(a, b) == ~isTrigger[a] /\ ~isTrigger[b]

\* A mutant of SkipsPair: no pair is skipped.
SkipsPairNever(a, b) == FALSE

\* Update, pair loop: the two "continue" for a pair with an inactive entity
\* or an entity without a CollisionComponent.
SkipsPair(a, b) ==
    \/ ~cActive[a] \/ ~cActive[b]
    \/ ~hasCollider[a] \/ ~hasCollider[b]

\* Update, body of the pair loop for entityA = a, entityB = b.
PairStep(st, a, b) ==
    IF SkipsPair(a, b) THEN st
    ELSE LET collision == [CheckCollision(a, b, st.pos) EXCEPT !.otherEntity = b]
             st0 == [st EXCEPT !.checks = Append(@, <<a, b>>)] IN
         IF ~collision.hasCollision THEN st0
         ELSE LET st1 == [st0 EXCEPT
                            !.collisions[a] = Append(@, collision),
                            !.collisions[b] = Append(@, ReverseCollision(collision, a)),
                            !.log = Append(@, [a |-> a, b |-> b,
                                               toward |-> Toward(a, b, st.pos),
                                               info |-> collision])]
              IN IF NeitherIsTrigger(a, b)
                 THEN ResolveCollision(st1, collision, a, b)
                 ELSE st1

\* Update, second loop: for i, for j = i + 1 over CollisionSystem::entities.
RECURSIVE PairLoop(_, _, _)
PairLoop(st, i, j) ==
    IF i > Len(colEntities) THEN st
    ELSE IF j > Len(colEntities) THEN PairLoop(st, i + 1, i + 2)
    ELSE PairLoop(PairStep(st, colEntities[i], colEntities[j]), i, j + 1)

\* CollisionSystem::Update.
CollisionUpdate ==
    /\ passes < MaxPasses
    /\ \E st \in {PairLoop([pos |-> pos, vel |-> vel,
                           collisions |-> ClearedCollisions(collisions),
                           log |-> <<>>, checks |-> <<>>], 1, 2)} :
          /\ pos' = st.pos
          /\ vel' = st.vel
          /\ collisions' = st.collisions
          /\ passLog' = st.log
          /\ passChecks' = st.checks
    /\ passes' = passes + 1
    /\ UNCHANGED <<ents, colEntities, cActive, shape, aabbSize, isTrigger, isStatic,
                   hasPhysics, hasCollider>>

\* The entities before any is registered; the colliders are configured by
\* the scene that builds them.
InitColCommon ==
    /\ colEntities = <<>>
    /\ cActive = [e \in Ents |-> TRUE]
    /\ collisions = [e \in Ents |-> <<>>]
    /\ passes = 0
    /\ passLog = <<>>
    /\ passChecks = <<>>
    /\ hasCollider = [e \in Ents |-> TRUE]

P0 == Vec(0, Half)                   \* where entity 1 starts
PairOffsets ==                       \* where entity 2 starts, relative to entity 1
    {Vec((6 * One) \div 10, 0), Vec(0, (6 * One) \div 10),
     Vec((3 * One) \div 10, (4 * One) \div 10), Zero2, Vec(3 * One, 0)}
Down5 == Vec(0, -5 * One)            \* velocity (0, -5)
Left5 == Vec(-5 * One, 0)            \* velocity (-5, 0)

\* No collidable entity at all (the Scene and SceneManager specifications).
InitColIdle ==
    /\ InitColCommon
    /\ ents = {}
    /\ shape = [e \in Ents |-> "CIRCLE"]
    /\ aabbSize = [e \in Ents |-> UnitBox]
    /\ isTrigger = [e \in Ents |-> FALSE]
    /\ isStatic = [e \in Ents |-> FALSE]
    /\ hasPhysics = [e \in Ents |-> FALSE]
    /\ pos = [e \in Ents |-> Zero2]
    /\ vel = [e \in Ents |-> Zero2]

\* Two entities of any shapes, near each other or apart.
InitPair ==
    /\ InitColCommon
    /\ ents = {1, 2}
    /\ shape \in {f \in [Ents -> Shapes] : f[3] = "CIRCLE"}
    /\ aabbSize \in {f \in [Ents -> {UnitBox, TallBox}] :
                       \A e \in Ents : shape[e] # "AABB" => f[e] = UnitBox}
    /\ isTrigger \in {f \in [Ents -> BOOLEAN] : ~f[3]}
    /\ isStatic \in {f \in [Ents -> BOOLEAN] : ~f[3]}
    /\ hasPhysics \in {f \in [Ents -> BOOLEAN] : f[1] /\ ~f[3]}
    /\ \E d \in PairOffsets : pos = [e \in Ents |-> IF e = 2 THEN VAdd(P0, d) ELSE P0]
    /\ \E v1 \in {Zero2, Down5}, v2 \in {Zero2, Left5} :
          vel = [e \in Ents |-> IF e = 1 THEN v1 ELSE IF e = 2 THEN v2 ELSE Zero2]

\* Three overlapping entities.
InitWorld ==
    /\ InitColCommon
    /\ ents = {1, 2, 3}
    /\ shape = [e \in Ents |-> "CIRCLE"]
    /\ aabbSize = [e \in Ents |-> UnitBox]
    /\ isTrigger \in {f \in [Ents -> BOOLEAN] : ~f[1] /\ ~f[2]}
    /\ isStatic \in {f \in [Ents -> BOOLEAN] : ~f[2] /\ ~f[3]}
    /\ hasPhysics = [e \in Ents |-> TRUE]
    /\ pos = [e \in Ents |-> IF e = 1 THEN P0
                             ELSE IF e = 2 THEN VAdd(P0, Vec((6 * One) \div 10, 0))
                             ELSE VAdd(P0, Vec((3 * One) \div 10, (4 * One) \div 10))]
    /\ vel = [e \in Ents |-> IF e = 1 THEN Down5 ELSE Zero2]

NextPair ==
    \/ \E e \in Ents : RegisterEntity(e)
    \/ CollisionUpdate

NextCollision ==
    \/ \E e \in Ents : RegisterEntity(e)
    \/ \E e \in Ents : UnregisterEntity(e)
    \/ ClearSystem
    \/ \E e \in Ents, b \in BOOLEAN : ColSetActive(e, b)
    \/ \E e \in {3} : RemoveCollider(e)
    \/ CollisionUpdate

(***************************************************************************)
(* Entity and Component                                                    *)
(***************************************************************************)
CompTypes == {"TransformComponent", "SimplePhysicsComponent", "CollisionComponent"}
CompArgs == {1, 2}                   \* constructor arguments of a component
Comps == 1..MaxComps                 \* Component objects
NoComp == 0                          \* the empty shared_ptr<Component>
TheEntity == 1                       \* the Entity object whose components are modelled

\* A Component object before it is constructed.
NoObject == [type |-> "", arg |-> 0, owner |-> Null, enabled |-> FALSE]

\* The Component objects after the entity dropped its shares of those in S:
\* the entity held the only share, so these objects are gone.
Released(S) == [c \in Comps |-> IF c \in S THEN NoObject ELSE comp[c]]

\* A call of a Component member function made by an Entity operation.
Call(f, c) == [call |-> f, comp |-> c]

\* The Entity after Scene::CreateEntity built it: no component.
InitEntity ==
    /\ components = [t \in CompTypes |-> NoComp]
    /\ componentsVector = <<>>
    /\ comp = [c \in Comps |-> NoObject]
    /\ numComps = 0
    /\ entLast = [op |-> "none", type |-> "", arg |-> 0, ret |-> 0, log |-> <<>>]

\* A mutant of AddComponent: a second component of the type replaces the first.
AddComponentAlways(t, a) ==
    /\ numComps < MaxComps
    /\ LET c == numComps + 1 IN
        /\ numComps' = c
        /\ comp' = [comp EXCEPT ![c] = [type |-> t, arg |-> a,
                                        owner |-> TheEntity, enabled |-> TRUE]]
        /\ components' = [components EXCEPT ![t] = c]
        /\ componentsVector' = Append(componentsVector, c)
        /\ entLast' = [op |-> "AddComponent", type |-> t, arg |-> a, ret |-> c,
                       log |-> <<Call("construct", c), Call("SetOwner", c),
                                 Call("Initialize", c)>>]

\* Entity::AddComponent<T>(args): the existing component of the type, else a
\* new one: constructed, SetOwner(this), stored in both containers, Initialize.
AddComponent(t, a) ==
    IF components[t] # NoComp
    THEN /\ entLast' = [op |-> "AddComponent", type |-> t, arg |-> a, ret |-> components[t], log |-> <<>>]
         /\ UNCHANGED <<components, componentsVector, comp, numComps>>
    ELSE /\ numComps < MaxComps
         /\ LET c == numComps + 1 IN
             /\ numComps' = c
             /\ comp' = [comp EXCEPT ![c] = [type |-> t, arg |-> a,
                                             owner |-> TheEntity, enabled |-> TRUE]]
             /\ components' = [components EXCEPT ![t] = c]
             /\ componentsVector' = Append(componentsVector, c)
             /\ entLast' = [op |-> "AddComponent", type |-> t, arg |-> a, ret |-> c,
                            log |-> <<Call("construct", c), Call("SetOwner", c),
                                      Call("Initialize", c)>>]

\* A mutant of RemoveComponent: the component leaves the lookup only.
RemoveComponentFromMapOnly(t) ==
    IF components[t] # NoComp
    THEN /\ components' = [components EXCEPT ![t] = NoComp]
         /\ entLast' = [op |-> "RemoveComponent", type |-> t, arg |-> 0, ret |-> TRUE,
                        log |-> <<Call("Destroy", components[t])>>]
         /\ UNCHANGED <<componentsVector, comp, numComps>>
    ELSE /\ entLast' = [op |-> "RemoveComponent", type |-> t, arg |-> 0, ret |-> FALSE, log |-> <<>>]
         /\ UNCHANGED <<components, componentsVector, comp, numComps>>

\* Entity::RemoveComponent<T>(): Destroy on the component, erase it from the
\* lookup and (remove_if on the dynamic type, then erase) from the vector.
RemoveComponent(t) ==
    IF components[t] # NoComp
    THEN /\ components' = [components EXCEPT ![t] = NoComp]
         /\ componentsVector' = SelectSeq(componentsVector, LAMBDA c : comp[c].type # t)
         /\ comp' = Released({components[t]})
         /\ entLast' = [op |-> "RemoveComponent", type |-> t, arg |-> 0, ret |-> TRUE,
                        log |-> <<Call("Destroy", components[t])>>]
         /\ UNCHANGED numComps
    ELSE /\ entLast' = [op |-> "RemoveComponent", type |-> t, arg |-> 0, ret |-> FALSE, log |-> <<>>]
         /\ UNCHANGED <<components, componentsVector, comp, numComps>>

\* Component::SetEnabled on a component obtained by GetComponent<T>().
ComponentSetEnabled(t, b) ==
    /\ components[t] # NoComp
    /\ comp' = [comp EXCEPT ![components[t]].enabled = b]
    /\ entLast' = [op |-> "SetEnabled", type |-> t, arg |-> 0, ret |-> 0, log |-> <<>>]
    /\ UNCHANGED <<components, componentsVector, numComps>>

\* The calls of f on the components of the vector v, in order.
CallsOn(f, v) == [i \in 1..Len(v) |-> Call(f, v[i])]

\* A mutant of UpdateCalls: disabled components are updated too.
UpdateCallsOnAll(v) == CallsOn("Update", SelectSeq(v, LAMBDA c : c # NoComp))

\* Entity::Update, the loop: Update on every non-null enabled component.
UpdateCalls(v) ==
    CallsOn("Update", SelectSeq(v, LAMBDA c : c # NoComp /\ comp[c].enabled))

\* Entity::Update(deltaTime): nothing when inactive.
EntityUpdate ==
    /\ entLast' = [op |-> "Update", type |-> "", arg |-> 0, ret |-> 0,
                   log |-> IF entActive[TheEntity] THEN UpdateCalls(componentsVector)
                           ELSE <<>>]
    /\ UNCHANGED <<components, componentsVector, comp, numComps>>

\* A mutant of DestroyCalls: only enabled components are destroyed.
DestroyCallsOnEnabled(v) ==
    CallsOn("Destroy", SelectSeq(v, LAMBDA c : c # NoComp /\ comp[c].enabled))

\* Entity::Destroy, the loop: Destroy on every non-null component.
DestroyCalls(v) == CallsOn("Destroy", SelectSeq(v, LAMBDA c : c # NoComp))

\* Entity::Destroy(): destroy the components, clear both containers, active = false.
EntityDestroy ==
    /\ destroyCalls[TheEntity] < MaxDestroys
    /\ entLast' = [op |-> "Destroy", type |-> "", arg |-> 0, ret |-> 0, log |-> DestroyCalls(componentsVector)]
    /\ components' = [t \in CompTypes |-> NoComp]
    /\ componentsVector' = <<>>
    /\ comp' = Released(Range(componentsVector))
    /\ entActive' = EntityDestroyActive(TheEntity)
    /\ destroyCalls' = EntityDestroyCalls(TheEntity)
    /\ UNCHANGED numComps

\* Entity::SetActive on the entity.
EntSetActive(b) ==
    /\ entActive' = [entActive EXCEPT ![TheEntity] = b]
    /\ entLast' = [op |-> "SetActive", type |-> "", arg |-> 0, ret |-> 0, log |-> <<>>]
    /\ UNCHANGED <<components, componentsVector, comp, numComps>>

\* The operations on the entity; only Destroy and SetActive touch a variable
\* that the Scene model owns (the entity's active flag).
NextEntity ==
    \/ \E t \in CompTypes, a \in CompArgs :
          AddComponent(t, a) /\ UNCHANGED sceneVars
    \/ \E t \in CompTypes : RemoveComponent(t) /\ UNCHANGED sceneVars
    \/ \E t \in CompTypes, b \in BOOLEAN :
          ComponentSetEnabled(t, b) /\ UNCHANGED sceneVars
    \/ EntityUpdate /\ UNCHANGED sceneVars
    \/ EntityDestroy /\ UNCHANGED <<entities, sceneActive, numObjs, entId, nextId,
                                    crashed, sceneLast>>
    \/ \E b \in BOOLEAN :
          EntSetActive(b) /\ UNCHANGED <<entities, sceneActive, numObjs, entId, nextId,
                                         destroyCalls, crashed, sceneLast>>

\* A scene that holds the entity: the state after Scene::CreateEntity(name).
InitSceneWithEntity ==
    /\ entities = <<TheEntity>>
    /\ sceneActive = TRUE
    /\ numObjs = 1
    /\ entId = [o \in Objs |-> IF o = TheEntity THEN 1 ELSE 0]
    /\ entActive = [o \in Objs |-> o = TheEntity]
    /\ nextId = 2
    /\ destroyCalls = [o \in Objs |-> 0]
    /\ crashed = FALSE
    /\ sceneLast = [op |-> "CreateEntity", arg |-> TheEntity, log |-> <<>>]

(***************************************************************************)
(* TransformComponent                                                      *)
(***************************************************************************)
\* A glm::vec3 is modelled by one of its components.
Coords == 0..MaxCoord

\* UpdateMatrix composes T * R * S: the matrix is determined by the
\* translation, the rotation and the scale it was composed from.
Compose(p, r, sc) == [t |-> p, r |-> r, s |-> sc]
IdentityMatrix == Compose(0, 0, 1)   \* glm::mat4(1.0f)

\* TransformComponent(pos, rot, scl): transformMatrix(1.0f), isDirty(true).
InitTransform ==
    /\ position \in Coords
    /\ rotation \in Coords
    /\ scale \in Coords
    /\ transformMatrix = IdentityMatrix
    /\ isDirty = TRUE
    /\ mutated = TRUE
    /\ trLast = [op |-> "TransformComponent", recomputed |-> FALSE]

\* A transform nobody uses (the other specifications).
InitTransformIdle ==
    /\ position = 0 /\ rotation = 0 /\ scale = 1
    /\ transformMatrix = IdentityMatrix
    /\ isDirty = TRUE
    /\ mutated = TRUE
    /\ trLast = [op |-> "TransformComponent", recomputed |-> FALSE]

\* TransformComponent::MarkDirty: the value isDirty takes.
MarkDirty == TRUE

\* TransformComponent::SetPosition.
SetPosition(p) ==
    /\ position' = p
    /\ isDirty' = MarkDirty
    /\ mutated' = TRUE
    /\ trLast' = [op |-> "SetPosition", recomputed |-> FALSE]
    /\ UNCHANGED <<rotation, scale, transformMatrix>>

\* TransformComponent::Translate.
Translate(delta) ==
    /\ position + delta \in Coords
    /\ position' = position + delta
    /\ isDirty' = MarkDirty
    /\ mutated' = TRUE
    /\ trLast' = [op |-> "Translate", recomputed |-> FALSE]
    /\ UNCHANGED <<rotation, scale, transformMatrix>>

\* TransformComponent::SetRotation.
SetRotation(r) ==
    /\ rotation' = r
    /\ isDirty' = MarkDirty
    /\ mutated' = TRUE
    /\ trLast' = [op |-> "SetRotation", recomputed |-> FALSE]
    /\ UNCHANGED <<position, scale, transformMatrix>>

\* A mutant of Rotate: the dirty flag is left as it is.
RotateKeepsFlag(delta) ==
    /\ rotation + delta \in Coords
    /\ rotation' = rotation + delta
    /\ mutated' = TRUE
    /\ trLast' = [op |-> "Rotate", recomputed |-> FALSE]
    /\ UNCHANGED <<position, scale, transformMatrix, isDirty>>

\* TransformComponent::Rotate.
Rotate(delta) ==
    /\ rotation + delta \in Coords
    /\ rotation' = rotation + delta
    /\ isDirty' = MarkDirty
    /\ mutated' = TRUE
    /\ trLast' = [op |-> "Rotate", recomputed |-> FALSE]
    /\ UNCHANGED <<position, scale, transformMatrix>>

\* TransformComponent::SetScale(const glm::vec3&) and SetScale(float), which
\* sets glm::vec3(uniformScale).
SetScale(sc) ==
    /\ scale' = sc
    /\ isDirty' = MarkDirty
    /\ mutated' = TRUE
    /\ trLast' = [op |-> "SetScale", recomputed |-> FALSE]
    /\ UNCHANGED <<position, rotation, transformMatrix>>

\* TransformComponent::UpdateMatrix: the matrix it stores.
UpdateMatrix == Compose(position, rotation, scale)

\* TransformComponent::GetTransformMatrix: recompute when dirty, clear the flag.
GetTransformMatrix ==
    /\ transformMatrix' = IF isDirty THEN UpdateMatrix ELSE transformMatrix
    /\ isDirty' = FALSE
    /\ mutated' = FALSE
    /\ trLast' = [op |-> "GetTransformMatrix", recomputed |-> isDirty]
    /\ UNCHANGED <<position, rotation, scale>>

NextTransform ==
    \/ \E p \in Coords : SetPosition(p)
    \/ \E d \in Coords : Translate(d)
    \/ \E r \in Coords : SetRotation(r)
    \/ \E d \in Coords : Rotate(d)
    \/ \E sc \in Coords : SetScale(sc)
    \/ GetTransformMatrix

(***************************************************************************)
(* Specifications                                                          *)
(***************************************************************************)
Init == InitScene /\ InitSM /\ InitColIdle /\ InitEntity /\ InitTransformIdle

SpecScene == Init /\ [][NextScene /\ UNCHANGED <<smVars, colVars, entVars, trVars>>]_vars
SpecSM == Init /\ [][NextSM /\ UNCHANGED <<sceneVars, colVars, entVars, trVars>>]_vars

InitPairs == InitScene /\ InitSM /\ InitPair /\ InitEntity /\ InitTransformIdle
SpecPair ==
    InitPairs /\ [][NextPair /\ UNCHANGED <<sceneVars, smVars, entVars, trVars>>]_vars

InitCollision == InitScene /\ InitSM /\ InitWorld /\ InitEntity /\ InitTransformIdle
SpecCollision ==
    InitCollision
        /\ [][NextCollision /\ UNCHANGED <<sceneVars, smVars, entVars, trVars>>]_vars

InitEntities ==
    InitSceneWithEntity /\ InitSM /\ InitColIdle /\ InitEntity /\ InitTransformIdle
SpecEntity ==
    InitEntities /\ [][NextEntity /\ UNCHANGED <<smVars, colVars, trVars>>]_vars

InitTransforms == InitScene /\ InitSM /\ InitColIdle /\ InitEntity /\ InitTransform
SpecTransform ==
    InitTransforms
        /\ [][NextTransform /\ UNCHANGED <<sceneVars, smVars, colVars, entVars>>]_vars

Next ==
    \/ NextScene /\ UNCHANGED <<smVars, colVars, entVars, trVars>>
    \/ NextSM /\ UNCHANGED <<sceneVars, colVars, entVars, trVars>>
    \/ NextCollision /\ UNCHANGED <<sceneVars, smVars, entVars, trVars>>
    \/ NextEntity /\ UNCHANGED <<smVars, colVars, trVars>>
    \/ NextTransform /\ UNCHANGED <<sceneVars, smVars, colVars, entVars>>
Spec == InitCollision /\ [][Next]_vars

(***************************************************************************)
(* Claims about Scene                                                      *)
(***************************************************************************)
SceneUpdateStep == sceneLast'.op = "Update"

HoldersOf(v, id) == {i \in 1..Len(v) : HasId(v[i], id)}

\* C1: Scene.RemoveEntity(id), for an id held by one entity at any position
\* of the entity list, invokes Destroy on exactly that entity and erases
\* exactly that entity; every other entity stays, in order, undestroyed.
C1_RemoveAtAnyPosition ==
    [][ (sceneLast'.op = "RemoveEntity"
            /\ Cardinality(HoldersOf(entities, sceneLast'.arg)) = 1)
        => LET o == entities[CHOOSE i \in HoldersOf(entities, sceneLast'.arg) : TRUE]
           IN /\ ~crashed'
              /\ entities' = SelectSeq(entities, LAMBDA x : x # o)
              /\ destroyCalls' = [destroyCalls EXCEPT ![o] = @ + 1]
              /\ entActive' = [entActive EXCEPT ![o] = FALSE] ]_vars

\* C21: Scene.RemoveEntity with an id that no entity of the list carries,
\* or with a null entity pointer, is a silent no-op: the list is unchanged,
\* Destroy is invoked on no entity and nothing fails.
C21_RemoveAbsentIsNoOp ==
    [][ (\/ sceneLast'.op = "RemoveEntity" /\ HoldersOf(entities, sceneLast'.arg) = {}
         \/ sceneLast'.op = "RemoveEntityPtr")
        => /\ entities' = entities
           /\ destroyCalls' = destroyCalls
           /\ entActive' = entActive
           /\ ~crashed' ]_vars

\* C21 witness: RemoveEntity was called with an id that none of the two or
\* more entities carries, and every entity ever created is still listed
\* and undestroyed.
C21_Witness ==
    /\ sceneLast.op = "RemoveEntity"
    /\ HoldersOf(entities, sceneLast.arg) = {}
    /\ numObjs >= 2
    /\ Len(entities) = numObjs
    /\ \A o \in Objs : destroyCalls[o] = 0
    /\ ~crashed

\* The entities updated by the last Scene::Update, in the order of the calls.
UpdatedLog(last) == [i \in DOMAIN last.log |-> last.log[i].ent]

\* C25: Scene::Update on an inactive scene updates no entity and erases
\* none. On an active scene it updates, once each and in creation order,
\* the entities active at their turn (all that stay active, none that was
\* inactive before), and erases only after the pass: during every update
\* the list is still the whole list, an entity deactivated during the pass
\* included, which is gone after the pass.
C25_UpdateThenSweep ==
    [][SceneUpdateStep =>
         LET ups == UpdatedLog(sceneLast')
             upset == {ups[i] : i \in DOMAIN ups}
         IN /\ ~sceneActive =>
                  entities' = entities /\ ups = <<>> /\ entActive' = entActive
            /\ sceneActive =>
                  /\ ups = SelectSeq(entities, LAMBDA o : o \in upset)
                  /\ \A i, j \in DOMAIN ups : i < j => ups[i] < ups[j]
                  /\ \A i \in DOMAIN entities :
                        /\ ~entActive[entities[i]] => entities[i] \notin upset
                        /\ entActive'[entities[i]] => entities[i] \in upset
                  /\ \A i \in DOMAIN ups : sceneLast'.log[i].among = entities
                  /\ \A i \in DOMAIN entities' : entActive'[entities'[i]]]_vars

\* C25 witness: the last Update of an active scene updated an entity that
\* deactivated itself in that update, then updated a later entity while the
\* first was still in the list; the sweep has erased the first.
C25_Witness ==
    /\ sceneLast.op = "Update"
    /\ Len(sceneLast.log) >= 2
    /\ \E d \in Objs :
          /\ sceneLast.log[1].ent = d
          /\ \E i \in DOMAIN sceneLast.log[2].among : sceneLast.log[2].among[i] = d
          /\ ~entActive[d]
          /\ ~InScene(d)

\* C28: whenever an entity leaves the scene's entity list (RemoveEntity, the
\* sweep of Scene::Update, Scene::Destroy), Entity::Destroy, which invokes
\* Destroy on each component the entity owns, has been called on it.
C28_DestroyedBeforeLeaving ==
    [][\A o \in Objs :
          (InScene(o) /\ \A i \in DOMAIN entities' : entities'[i] # o)
             => destroyCalls'[o] >= 1]_vars

(***************************************************************************)
(* Claims about SceneManager                                               *)
(***************************************************************************)

\* C2: LoadScene("X") for a registered name X changes neither the current
\* scene nor the active flag of any scene.
C2_LoadSceneIsDeferred ==
    [][ (smLast'.op = "LoadScene" /\ smLast'.ok)
        => (currentScene' = currentScene /\ sActive' = sActive) ]_vars

\* C2 witness: LoadScene succeeded for a scene other than the current one,
\* which is still current and active while the transition is pending.
C2_Witness ==
    /\ smLast.op = "LoadScene" /\ smLast.ok
    /\ sceneTransitionPending
    /\ currentScene # NoScene /\ nextScene # NoScene
    /\ nextScene # currentScene
    /\ sActive[currentScene]

\* What ProcessSceneTransition does in a step: with a transition pending the
\* outgoing scene (if any) is deactivated, the pending target becomes the
\* current scene and is active, the flag is cleared, no other scene's flag
\* changes; with none pending nothing changes.
ProcessEffect ==
    smLast'.op = "ProcessSceneTransition" =>
        IF sceneTransitionPending
        THEN /\ nextScene # NoScene
             /\ currentScene' = nextScene
             /\ sActive'[nextScene]
             /\ (currentScene # NoScene /\ currentScene # nextScene)
                    => ~sActive'[currentScene]
             /\ \A s \in SceneObjs \ {currentScene, nextScene} :
                    sActive'[s] = sActive[s]
             /\ ~sceneTransitionPending'
        ELSE UNCHANGED <<scenes, currentScene, currentSceneName, nextScene,
                         sceneTransitionPending, sActive, sName>>

\* C3 as stated: ProcessSceneTransition is the sole SceneManager operation
\* that changes the current scene, and it behaves as ProcessEffect says.
C3_SoleChangeOfCurrentScene ==
    [][ /\ (currentScene' # currentScene) => smLast'.op = "ProcessSceneTransition"
        /\ ProcessEffect ]_vars

\* C3 amended: ProcessSceneTransition is the sole SceneManager operation that
\* makes a scene current; the only other change of the current scene is
\* UnloadCurrentScene, which sets it to none and deactivates the scene it
\* drops. ProcessSceneTransition behaves as ProcessEffect says.
C3_SoleActivationOfAScene ==
    [][ /\ (currentScene' # currentScene /\ currentScene' # NoScene)
              => smLast'.op = "ProcessSceneTransition"
        /\ (currentScene' # currentScene /\ currentScene' = NoScene)
              => (smLast'.op = "UnloadCurrentScene" /\ ~sActive'[currentScene])
        /\ ProcessEffect ]_vars

\* C3 witness: a transition just took effect from one scene to another; the
\* outgoing scene is inactive, the incoming one current and active.
C3_Witness ==
    /\ smLast.op = "ProcessSceneTransition"
    /\ smLast.prev # NoScene /\ currentScene # NoScene
    /\ smLast.prev # currentScene
    /\ ~sActive[smLast.prev] /\ sActive[currentScene]
    /\ ~sceneTransitionPending

\* C4: after several successful LoadScene calls, one ProcessSceneTransition
\* makes the most recent target current, activates no other scene and clears
\* the pending state; a ProcessSceneTransition with no request outstanding
\* changes nothing.
C4_SinglePendingSlot ==
    [][ smLast'.op = "ProcessSceneTransition" =>
          IF requests # <<>>
          THEN /\ currentScene' = Last(requests)
               /\ \A s \in SceneObjs \ {Last(requests)} : sActive'[s] => sActive[s]
               /\ ~sceneTransitionPending'
               /\ nextScene' = NoScene
          ELSE UNCHANGED <<scenes, currentScene, currentSceneName, nextScene,
                           sceneTransitionPending, sActive, sName>> ]_vars

\* C4 witness: two LoadScene calls with different targets were consumed by
\* one transition; the later target is current, the earlier one is not.
C4_Witness ==
    /\ smLast.op = "ProcessSceneTransition"
    /\ Len(smLast.reqs) >= 2
    /\ smLast.reqs[1] # Last(smLast.reqs)
    /\ currentScene = Last(smLast.reqs)
    /\ ~sceneTransitionPending

(***************************************************************************)
(* CollisionSystem claims                                                  *)
(***************************************************************************)
UpdateStep == passes' = passes + 1

\* The checks of the latest pass that involve entity e.
ChecksOf(e, log) == {i \in DOMAIN log : log[i].a = e \/ log[i].b = e}

\* C5: after any CollisionSystem::Update pass the collision list of every
\* registered entity holds only the entries of that pass, one per positive
\* check the entity took part in; nothing of an earlier pass survives, also
\* for an entity deactivated between the passes.
C5_OnlyLatestPass ==
    [][UpdateStep =>
         \A e \in Range(colEntities') :
            Len(collisions'[e]) = Cardinality(ChecksOf(e, passLog'))]_vars

\* C6: every CollisionInfo that Update stores on an entity has a normal that
\* points from the owning entity toward the other one (its component along
\* the direction toward the other is not negative), for every supported
\* shape pair in both registration orders.
C6_NormalPointsToOther ==
    [][UpdateStep =>
         \A i \in DOMAIN passLog' :
            LET l == passLog'[i] IN
               /\ Dot(Last(collisions'[l.a]).normal, l.toward) >= 0
               /\ Dot(Last(collisions'[l.b]).normal, VNeg(l.toward)) >= 0]_vars

\* The restitution scenario: dynamic circle c with velocity (0, -5) above the
\* static line l at y = 0, both with physics, neither a trigger, registered
\* and in contact.
RestitutionScenario(c, l) ==
    /\ c # l /\ {c, l} \subseteq Range(colEntities)
    /\ shape[c] = "CIRCLE" /\ shape[l] = "LINE_SEGMENT"
    /\ ~isStatic[c] /\ isStatic[l]
    /\ hasPhysics[c] /\ hasPhysics[l]
    /\ ~isTrigger[c] /\ ~isTrigger[l]
    /\ vel[c] = Down5 /\ vel[l] = Zero2
    /\ pos[c].y > 0
    /\ CheckCollision(c, l, pos).hasCollision

VelocityTolerance == One \div 100

\* C7: resolving the restitution scenario (bounceDamping 0.5) leaves the
\* circle with a vertical velocity of about +2.5.
C7_RestitutionBounce ==
    [][\A c, l \in Ents :
          UpdateStep /\ RestitutionScenario(c, l)
             => Abs(vel'[c].y - (5 * One) \div 2) <= VelocityTolerance]_vars

\* C8: Update never changes the position or the velocity of an entity whose
\* collider is static; when a static and a non-static AABB overlap by more
\* than the slop and are resolved, the non-static entity's position changes
\* and the static one's does not; when both are static neither changes.
C8_StaticImmovable ==
    [][UpdateStep =>
         /\ \A e \in Ents : isStatic[e] => pos'[e] = pos[e] /\ vel'[e] = vel[e]
         /\ \A a, b \in Range(colEntities) :
               /\ shape[a] = "AABB" /\ shape[b] = "AABB"
               /\ isStatic[a] /\ ~isStatic[b]
               /\ ~isTrigger[a] /\ ~isTrigger[b]
               /\ \E i \in DOMAIN passLog' :
                     /\ {passLog'[i].a, passLog'[i].b} = {a, b}
                     /\ passLog'[i].info.penetration > Slop
               => pos'[b] # pos[b] /\ pos'[a] = pos[a]]_vars

\* A pass has resolved the overlap of the static AABB 2 and the non-static
\* AABB 1, and entity 1 has been pushed away from where it started.
C8_Witness ==
    /\ passes > 0 /\ passLog # <<>>
    /\ shape[1] = "AABB" /\ shape[2] = "AABB"
    /\ isStatic[2] /\ ~isStatic[1] /\ ~isTrigger[2]
    /\ pos[1] # P0

\* C9: for every collision between A and B that the latest pass recorded,
\* A's list holds an entry with otherEntity = B and B's list an entry with
\* otherEntity = A, with equal hasCollision, contact point and penetration,
\* and normals that are exact negations of each other.
C9_ContactSymmetry ==
    \A i \in DOMAIN passLog :
       LET l == passLog[i] IN
          \E j \in DOMAIN collisions[l.a], k \in DOMAIN collisions[l.b] :
             LET ea == collisions[l.a][j]
                 eb == collisions[l.b][k]
             IN /\ ea = l.info
                /\ ea.otherEntity = l.b /\ eb.otherEntity = l.a
                /\ ea.hasCollision /\ eb.hasCollision
                /\ ea.contactPoint = eb.contactPoint
                /\ ea.penetration = eb.penetration
                /\ eb.normal = VNeg(ea.normal)

\* One pass has recorded the three contacts of three entities.
C9_Witness == Len(passLog) = 3 /\ Cardinality(Range(colEntities)) = 3

\* C10 as stated: for every pair (A, B) that collided in the latest pass,
\* the normal of the last entry on A is the negation of the normal of the
\* last entry on B.
C10_LastNormalsNegated ==
    \A i \in DOMAIN passLog :
       LET l == passLog[i] IN
          Last(collisions[l.a]).normal = VNeg(Last(collisions[l.b]).normal)

\* The last entries of A and of B describe the contact between A and B.
LastIsMutual(a, b) ==
    /\ Last(collisions[a]).otherEntity = b
    /\ Last(collisions[b]).otherEntity = a

\* C10, amended: for every pair (A, B) that collided in the latest pass and
\* whose last entries refer to each other, the normal of the last entry on A
\* is the negation of the normal of the last entry on B.
C10_MutualLastNormalsNegated ==
    \A i \in DOMAIN passLog :
       LET l == passLog[i] IN
          LastIsMutual(l.a, l.b)
             => Last(collisions[l.a]).normal = VNeg(Last(collisions[l.b]).normal)

\* Three entities collided in one pass and the last entries of one pair
\* refer to each other.
C10_Witness ==
    /\ Len(passLog) = 3
    /\ \E i \in DOMAIN passLog : LastIsMutual(passLog[i].a, passLog[i].b)

(***************************************************************************)
(* Scene sweep and entity ids                                              *)
(***************************************************************************)
\* The sweep of one Scene::Update: every entity that was inactive is gone,
\* every entity that is still active is kept, and the kept ones are in
\* their original order.
Swept ==
    LET kept == {entities'[i] : i \in 1..Len(entities')}
        stillActive == entActive'
    IN /\ \A i \in 1..Len(entities) : ~entActive[entities[i]] => entities[i] \notin kept
       /\ \A i \in 1..Len(entities) : stillActive[entities[i]] => entities[i] \in kept
       /\ entities' = SelectSeq(entities, LAMBDA o : o \in kept)

\* C11 as stated: after one Scene::Update every entity that was inactive is
\* absent from the list and the active ones remain in their original order.
C11_SweepAfterUpdate ==
    [][SceneUpdateStep => Swept]_vars

\* C11, amended: after one Scene::Update of an active scene every entity
\* that was inactive is absent from the list and the active ones remain in
\* their original order; an inactive scene keeps its list as it is.
C11_SweepOfActiveScene ==
    [][SceneUpdateStep =>
         /\ sceneActive => Swept
         /\ ~sceneActive => entities' = entities]_vars

\* Update has just swept an active scene: one entity is gone, two remain.
C11_Witness ==
    /\ sceneLast.op = "Update" /\ sceneActive
    /\ numObjs = 3 /\ Len(entities) = 2
    /\ \E o \in 1..numObjs : ~entActive[o] /\ \A i \in 1..Len(entities) : entities[i] # o

\* C13: no two entities ever created carry the same id, whether created by
\* CreateEntity(name) or by CreateEntity(id, name), and every automatically
\* assigned id is larger than every id assigned before it.
C13_UniqueIds ==
    /\ \A o1, o2 \in 1..numObjs : o1 # o2 => entId[o1] # entId[o2]
    /\ \A o \in 1..numObjs : entId[o] < nextId

(***************************************************************************)
(* Entity claims                                                           *)
(***************************************************************************)
EntityStep(name) == entLast'.op = name

\* The position of component c in the vector v (0 when absent).
IndexIn(v, c) == IF \E i \in 1..Len(v) : v[i] = c
                 THEN CHOOSE i \in 1..Len(v) : v[i] = c ELSE 0

\* How often the call f on component c occurs in the log.
TimesCalled(log, f, c) == Cardinality({i \in DOMAIN log : log[i] = Call(f, c)})

\* C26: after any sequence of AddComponent, RemoveComponent and Destroy the
\* type-keyed lookup and the ordered list hold exactly the same components,
\* each once, at most one per concrete type and under its own type, and the
\* owner of each held component is the entity.
C26_ContainersAgree ==
    /\ {components[t] : t \in CompTypes} \ {NoComp} =
          {componentsVector[i] : i \in DOMAIN componentsVector}
    /\ \A i, j \in DOMAIN componentsVector :
          i # j => /\ componentsVector[i] # componentsVector[j]
                   /\ comp[componentsVector[i]].type # comp[componentsVector[j]].type
    /\ \A t \in CompTypes : components[t] # NoComp => comp[components[t]].type = t
    /\ \A i \in DOMAIN componentsVector : comp[componentsVector[i]].owner = TheEntity

\* C26 witness: RemoveComponent has just removed one of two components; the
\* other one is still held.
C26_Witness ==
    /\ entLast.op = "RemoveComponent" /\ entLast.ret = TRUE
    /\ numComps >= 2
    /\ Len(componentsVector) = 1

\* C12: AddComponent<T> on an entity that already has a T returns that very
\* component, constructs nothing, calls neither SetOwner nor Initialize,
\* leaves the component (its constructor argument too) as it was, and leaves
\* the lookup, the vector and the number of components unchanged.
C12_IdempotentAttach ==
    [][EntityStep("AddComponent") /\ components[entLast'.type] # NoComp =>
         /\ entLast'.ret = components[entLast'.type]
         /\ entLast'.log = <<>>
         /\ numComps' = numComps
         /\ comp' = comp
         /\ components' = components
         /\ componentsVector' = componentsVector]_vars

\* AddComponent<T> was called with a new argument on an entity that has a T
\* and another component; the T it returned still has its first argument.
C12_Witness ==
    /\ entLast.op = "AddComponent" /\ entLast.log = <<>>
    /\ entLast.ret = components[entLast.type]
    /\ comp[entLast.ret].arg # entLast.arg
    /\ Len(componentsVector) >= 2

\* C17: RemoveComponent<T> on an entity with a T calls Destroy on that
\* component once and on no other, removes exactly it from the lookup and
\* from the vector (the others keep their order) and returns true; on an
\* entity without a T it returns false, calls nothing and changes nothing.
C17_RemoveComponent ==
    [][EntityStep("RemoveComponent") =>
         LET t == entLast'.type
             c == components[t]
         IN IF c # NoComp
            THEN /\ entLast'.ret = TRUE
                 /\ entLast'.log = <<Call("Destroy", c)>>
                 /\ components' = [components EXCEPT ![t] = NoComp]
                 /\ componentsVector' = SelectSeq(componentsVector, LAMBDA x : x # c)
                 /\ Len(componentsVector') = Len(componentsVector) - 1
            ELSE /\ entLast'.ret = FALSE
                 /\ entLast'.log = <<>>
                 /\ components' = components
                 /\ componentsVector' = componentsVector
                 /\ comp' = comp
                 /\ entActive' = entActive]_vars

\* The second of three components has just been removed.
C17_Witness ==
    /\ entLast.op = "RemoveComponent" /\ entLast.ret = TRUE
    /\ componentsVector = <<1, 3>>
    /\ entLast.log = <<Call("Destroy", 2)>>

\* C18: Entity::Update on an inactive entity calls Update on no component;
\* on an active entity it calls Update exactly once on every enabled
\* component, in the order of attachment, and on no disabled component.
C18_EntityUpdate ==
    [][EntityStep("Update") =>
         LET log == entLast'.log IN
            /\ \A i \in DOMAIN log :
                  log[i].call = "Update" /\ IndexIn(componentsVector, log[i].comp) > 0
            /\ \A c \in Range(componentsVector) :
                  TimesCalled(log, "Update", c) =
                     IF entActive[TheEntity] /\ comp[c].enabled THEN 1 ELSE 0
            /\ \A i, j \in DOMAIN log :
                  i < j => IndexIn(componentsVector, log[i].comp)
                              < IndexIn(componentsVector, log[j].comp)
            /\ UNCHANGED <<components, componentsVector, comp, entActive>>]_vars

\* An active entity with three components, one of them disabled, has just
\* been updated.
C18_Witness ==
    /\ entLast.op = "Update" /\ entActive[TheEntity]
    /\ Len(componentsVector) = 3 /\ Len(entLast.log) = 2
    /\ ~comp[componentsVector[2]].enabled

\* C19: Entity::Destroy calls Destroy once on every component of the entity,
\* enabled or not, leaves the entity without components and inactive, and
\* leaves the entity list of the scene as it was.
C19_EntityDestroy ==
    [][EntityStep("Destroy") =>
         /\ Len(entLast'.log) = Len(componentsVector)
         /\ \A c \in Range(componentsVector) : TimesCalled(entLast'.log, "Destroy", c) = 1
         /\ componentsVector' = <<>>
         /\ \A t \in CompTypes : components'[t] = NoComp
         /\ ~entActive'[TheEntity]
         /\ entities' = entities]_vars

\* The entity has just been destroyed with three components and is still in
\* the scene's list.
C19_Witness ==
    /\ entLast.op = "Destroy" /\ Len(entLast.log) = 3
    /\ componentsVector = <<>> /\ ~entActive[TheEntity]
    /\ TheEntity \in Range(entities)

(***************************************************************************)
(* Triggers and the centre of a line                                       *)
(***************************************************************************)

\* The sign of a number: -1, 0 or 1.
Sign(x) == IF x > 0 THEN 1 ELSE IF x < 0 THEN -1 ELSE 0

\* The AABB-AABB checks of the last pass, each with the penetrations on both
\* axes computed from the sizes and the centre delta B - A of the check.
AABBChecks ==
    {[info |-> passLog[i].info, delta |-> passLog[i].toward,
      penX |-> VAdd(VScale(aabbSize[passLog[i].a], Half),
                    VScale(aabbSize[passLog[i].b], Half)).x - Abs(passLog[i].toward.x),
      penY |-> VAdd(VScale(aabbSize[passLog[i].a], Half),
                    VScale(aabbSize[passLog[i].b], Half)).y - Abs(passLog[i].toward.y)] :
        i \in {j \in DOMAIN passLog :
                  shape[passLog[j].a] = "AABB" /\ shape[passLog[j].b] = "AABB"}}

\* C22 as stated: for two overlapping AABBs the normal lies along the axis
\* of the strictly smaller penetration, the penetration is that smaller
\* overlap, and the normal's sign is the sign of B's centre minus A's centre
\* on that axis.
C22_MinAxisSignOfDelta ==
    \A c \in AABBChecks :
       /\ c.penX < c.penY =>
             c.info.normal = Vec(Sign(c.delta.x) * One, 0) /\ c.info.penetration = c.penX
       /\ c.penY < c.penX =>
             c.info.normal = Vec(0, Sign(c.delta.y) * One) /\ c.info.penetration = c.penY

\* C22, amended: the normal lies along the axis of the strictly smaller
\* penetration (along Y when both are equal), the penetration is that
\* overlap, and the normal is positive on that axis when B's centre is
\* beyond A's and negative otherwise, also when the centres are level.
C22_MinAxisTowardB ==
    \A c \in AABBChecks :
       /\ c.penX < c.penY =>
             /\ c.info.normal = Vec(IF c.delta.x > 0 THEN One ELSE -One, 0)
             /\ c.info.penetration = c.penX
       /\ c.penY <= c.penX =>
             /\ c.info.normal = Vec(0, IF c.delta.y > 0 THEN One ELSE -One)
             /\ c.info.penetration = c.penY

\* C22 witness: a pass has checked two AABBs that overlap less on X than on
\* Y while their centres are level on X.
C22_Witness ==
    \E c \in AABBChecks : c.penX < c.penY /\ c.delta.x = 0 /\ c.info.hasCollision

\* The shape pairs CheckCollision has a check for.
Supported(a, b) ==
    <<shape[a], shape[b]>> \in
        {<<"CIRCLE", "CIRCLE">>, <<"CIRCLE", "LINE_SEGMENT">>, <<"LINE_SEGMENT", "CIRCLE">>,
         <<"CIRCLE", "AABB">>, <<"AABB", "CIRCLE">>, <<"AABB", "AABB">>}

\* C23: a pair of shapes CheckCollision has no check for yields the default
\* no-collision result; an Update whose pairs are all of that kind records
\* nothing on any entity and changes no position and no velocity.
C23_UnsupportedPairIsNoCollision ==
    [][(UpdateStep /\ \A a, b \in Range(colEntities) : a # b => ~Supported(a, b))
        => /\ \A a, b \in Range(colEntities) :
                 a # b => CheckCollision(a, b, pos) = NoCollision
           /\ \A e \in Range(colEntities) : collisions'[e] = <<>>
           /\ passLog' = <<>>
           /\ pos' = pos
           /\ vel' = vel]_vars

\* C23 witness: a pass has run over a POINT and an AABB that sit on the same
\* spot, the POINT moving; nothing was recorded.
C23_Witness ==
    /\ passes >= 1
    /\ Range(colEntities) = {1, 2}
    /\ shape[1] = "POINT" /\ shape[2] = "AABB"
    /\ pos[1] = pos[2]
    /\ vel[1] = Down5
    /\ collisions[1] = <<>> /\ collisions[2] = <<>>

\* The pairs of registered entities that are both active and both carry a
\* CollisionComponent, as <<i, j>> with i < j in registration order.
EligiblePairs ==
    {q \in (1..Len(colEntities)) \X (1..Len(colEntities)) :
        /\ q[1] < q[2]
        /\ \A k \in {q[1], q[2]} : cActive[colEntities[k]] /\ hasCollider[colEntities[k]]}

\* The number of entries of the collision list cs that name the entity o.
InfosAbout(cs, o) == Cardinality({i \in DOMAIN cs : cs[i].otherEntity = o})

\* C24: one Update pass gives CheckCollision every pair of registered
\* entities that are both active and both carry a CollisionComponent exactly
\* once, as (earlier, later) and in the order of the double loop, and no
\* other pair; after it an entity holds at most one CollisionInfo per other
\* entity, and an inactive entity has received none and has not moved.
C24_EachEligiblePairOnce ==
    [][UpdateStep =>
         /\ Len(passChecks') = Cardinality(EligiblePairs)
         /\ \A q \in EligiblePairs :
               \E k \in DOMAIN passChecks' :
                  passChecks'[k] = <<colEntities[q[1]], colEntities[q[2]]>>
         /\ \A k, m \in DOMAIN passChecks' :
               k < m =>
                  LET ia == CHOOSE i \in DOMAIN colEntities : colEntities[i] = passChecks'[k][1]
                      ja == CHOOSE i \in DOMAIN colEntities : colEntities[i] = passChecks'[k][2]
                      ib == CHOOSE i \in DOMAIN colEntities : colEntities[i] = passChecks'[m][1]
                      jb == CHOOSE i \in DOMAIN colEntities : colEntities[i] = passChecks'[m][2]
                  IN ia < ib \/ (ia = ib /\ ja < jb)
         /\ \A e \in Range(colEntities), o \in Ents : InfosAbout(collisions'[e], o) <= 1
         /\ \A e \in Range(colEntities) :
               ~cActive[e] => collisions'[e] = collisions[e] /\ pos'[e] = pos[e]]_vars

\* C24 witness: a pass over three registered entities, one of them inactive,
\* has checked the one pair of the other two, which hold one result each.
C24_Witness ==
    /\ passes >= 1
    /\ Len(colEntities) = 3
    /\ \E e \in Range(colEntities) :
          /\ ~cActive[e]
          /\ Len(passChecks) = 1
          /\ e \notin {passChecks[1][1], passChecks[1][2]}
          /\ \A o \in Range(colEntities) \ {e} : cActive[o] /\ Len(collisions[o]) = 1

\* The registered pairs, in both orders.
OrderedPairs == {q \in Range(colEntities) \X Range(colEntities) : q[1] # q[2]}

\* C27 as stated: CheckCollision(A,B) and CheckCollision(B,A) agree on
\* hasCollision and penetration and return exactly negated normals, for
\* every pair of colliders, coincident or aligned centres included.
C27_Antisymmetric ==
    \A q \in OrderedPairs :
       LET f == CheckCollision(q[1], q[2], pos)
           g == CheckCollision(q[2], q[1], pos)
       IN /\ f.hasCollision = g.hasCollision
          /\ f.penetration = g.penetration
          /\ f.normal = VNeg(g.normal)

\* The cases in which a check takes its normal from a fixed fallback and not
\* from the centres: two circles whose centres are no more than 0.001 apart,
\* and two overlapping AABBs whose centres are level on the separation axis.
FallbackNormal(a, b) ==
    CASE shape[a] = "CIRCLE" /\ shape[b] = "CIRCLE" ->
            /\ CheckCircleCircle(a, b, pos).hasCollision
            /\ ~(Distance(GetWorldCenter(a, pos), GetWorldCenter(b, pos)) > Eps)
      [] shape[a] = "AABB" /\ shape[b] = "AABB" ->
            LET c == CheckAABBAABB(a, b, pos)
                d == VSub(GetWorldCenter(b, pos), GetWorldCenter(a, pos))
            IN c.hasCollision /\ (IF c.normal.x # 0 THEN d.x = 0 ELSE d.y = 0)
      [] OTHER -> FALSE

\* C27, amended: the two orders agree on hasCollision and penetration; the
\* normals are exactly negated, reversed type orders included, unless the
\* normal is a fixed fallback, which both orders return unchanged.
C27_AntisymmetricOffFallback ==
    \A q \in OrderedPairs :
       LET f == CheckCollision(q[1], q[2], pos)
           g == CheckCollision(q[2], q[1], pos)
       IN /\ f.hasCollision = g.hasCollision
          /\ f.penetration = g.penetration
          /\ IF FallbackNormal(q[1], q[2])
             THEN f.normal = g.normal /\ f.normal # VNeg(g.normal)
             ELSE f.normal = VNeg(g.normal)

\* C27 witness: a pass has checked two circles with the same centre; both
\* orders of the check return the normal (1, 0).
C27_Witness ==
    /\ passes >= 1
    /\ Range(colEntities) = {1, 2}
    /\ shape[1] = "CIRCLE" /\ shape[2] = "CIRCLE"
    /\ pos[1] = pos[2]
    /\ CheckCollision(1, 2, pos).hasCollision
    /\ CheckCollision(1, 2, pos).normal = Vec(One, 0)
    /\ CheckCollision(2, 1, pos).normal = Vec(One, 0)

\* The relative velocity of b against a along the normal n, as
\* ResolveCollision computes it: negative when the two approach.
AlongNormal(v, a, b, n) == Dot(VSub(v[b], v[a]), n)

\* C29: ResolveCollision on a colliding pair never makes the two bodies
\* approach faster: the relative velocity along the collision normal is,
\* after the resolution, not less than before it.
C29_NoFasterApproach ==
    [][UpdateStep =>
         \A i \in DOMAIN passLog' :
            LET l == passLog'[i] IN
               (Len(passLog') = 1 /\ NeitherIsTrigger(l.a, l.b))
                  => AlongNormal(vel', l.a, l.b, l.info.normal)
                        >= AlongNormal(vel, l.a, l.b, l.info.normal)]_vars

\* C30: every otherEntity stored in the collision results of a registered
\* entity is an entity that is registered in the CollisionSystem.
C30_ResultsNameRegistered ==
    \A e \in Range(colEntities) :
       \A i \in DOMAIN collisions[e] :
          collisions[e][i].otherEntity \in Range(colEntities)

\* C14: when two registered active colliders overlap and at least one of
\* them is a trigger, Update records the collision on both sides (each list
\* gets the entry that names the other) and changes no position and no
\* velocity of either entity.
C14_TriggersNotResolved ==
    [][\A a, b \in Range(colEntities) :
          /\ UpdateStep /\ a # b
          /\ cActive[a] /\ cActive[b]
          /\ isTrigger[a] \/ isTrigger[b]
          /\ CheckCollision(a, b, pos).hasCollision
          => /\ \E i \in DOMAIN collisions'[a] : collisions'[a][i].otherEntity = b
             /\ \E i \in DOMAIN collisions'[b] : collisions'[b][i].otherEntity = a
             /\ pos'[a] = pos[a] /\ pos'[b] = pos[b]
             /\ vel'[a] = vel[a] /\ vel'[b] = vel[b]]_vars

\* A pass has recorded the overlap of the moving circle 1 and the trigger 2
\* on both sides; circle 1 is where it was, with the velocity it had.
C14_Witness ==
    /\ passes > 0 /\ isTrigger[2] /\ ~isTrigger[1]
    /\ Len(collisions[1]) = 1 /\ Len(collisions[2]) = 1
    /\ collisions[1][1].penetration > Slop
    /\ hasPhysics[2] /\ ~isStatic[1] /\ ~isStatic[2]
    /\ pos[1] = P0 /\ vel[1] = Down5

\* The midpoint of the line's end points taken as world coordinates.
LineMidpoint == VScale(VAdd(LineStart, LineEnd), Half)

\* C15: GetWorldCenter of a LINE_SEGMENT collider is the midpoint of its end
\* points taken as world coordinates, whatever the position of the owning
\* entity's TransformComponent.
C15_LineCenterIsMidpoint ==
    \A e \in ents : shape[e] = "LINE_SEGMENT" => GetWorldCenter(e, pos) = LineMidpoint

(***************************************************************************)
(* LoadScene with an unknown name                                          *)
(***************************************************************************)

\* C20: LoadScene(name) with a name that is not registered returns false
\* and leaves the current scene, the pending target and the pending flag as
\* they were: an earlier pending transition is neither cancelled nor replaced.
C20_LoadSceneUnknown ==
    [][smLast'.op = "LoadScene" /\ scenes[smLast'.name] = NoScene =>
         /\ ~smLast'.ok
         /\ UNCHANGED <<currentScene, currentSceneName, nextScene,
                        sceneTransitionPending, scenes, sActive>>]_vars

\* LoadScene has just failed for an unknown name while a transition to a
\* registered scene is pending with a current scene in place.
C20_Witness ==
    /\ smLast.op = "LoadScene" /\ ~smLast.ok
    /\ scenes[smLast.name] = NoScene
    /\ sceneTransitionPending /\ nextScene # NoScene
    /\ currentScene # NoScene /\ currentScene # nextScene

(***************************************************************************)
(* Lazy transform matrix                                                   *)
(***************************************************************************)

\* C16: GetTransformMatrix runs UpdateMatrix exactly when the transform was
\* constructed or mutated (SetPosition, Translate, SetRotation, Rotate,
\* SetScale) since the previous call, so a call that follows another call
\* recomputes nothing and the first call after a mutator recomputes once; it
\* returns the matrix composed from the current position, rotation and
\* scale; and whenever the dirty flag is clear the cached matrix is that one.
C16_LazyMatrix ==
    [][/\ trLast'.op = "GetTransformMatrix" =>
             /\ trLast'.recomputed <=> mutated
             /\ transformMatrix' = Compose(position, rotation, scale)
       /\ ~isDirty' => transformMatrix' = Compose(position', rotation', scale')]_vars

\* A second GetTransformMatrix in a row has recomputed nothing and the
\* cached matrix is the one of a transform that was moved and turned.
C16_Witness ==
    /\ trLast.op = "GetTransformMatrix" /\ ~trLast.recomputed
    /\ ~isDirty
    /\ position = 2 /\ rotation = 1
    /\ transformMatrix # IdentityMatrix

====
